---- MODULE Spec2Model ----
(***************************************************************************)
(* Balance ledger, crypto-payment webhook and withdrawal workflow of the   *)
(* FitMarket backend (src/src/routes/crypto.js, src/src/cryptoBot.js,      *)
(* src/src/index.js, src/unnamed/part_005).                                *)
(*                                                                         *)
(* Money is counted in cents.  Every `await` of a handler is one step of   *)
(* the model, so that concurrent handlers interleave exactly where the     *)
(* single-threaded event loop lets them.                                   *)
(***************************************************************************)
EXTENDS Integers, Sequences, FiniteSets, TLC

\* ------------------------------------------------------------------ bounds
MaxInvoices == 2      \* invoices the gateway issues
MaxDeliveries == 2    \* webhook requests per invoice
MaxRestarts == 1      \* process restarts
MaxFaults == 1        \* store calls that throw in the webhook, approve and reject handlers
MaxCreateFaults == 2  \* store calls that throw, those of the create handler included
MaxRequests == 2      \* withdrawal requests
MaxTime == 2          \* clock ticks

\* ------------------------------------------------------------- the world
adminTelegramId == "admin"
NoAccount == "none"
Accounts == {"admin", "trainer", "buyer"}
ProgramIds == {"p1"}
Program == [p1 |-> [authorId |-> "trainer", price |-> 2000]]
DepositAmounts == {1000}
DepositUsers == {"buyer", "trainer"}
WithdrawAmounts == {1000, 5000}
EarnedBalance == 1000 + 5000
InvoiceIds == 1..MaxInvoices
UpdateTypes == {"invoice_paid", "invoice_other"}

RequestIds == 1..MaxRequests
Requesters == {"trainer"}
Reviewers == {"admin"}

WebhookProcs == {"w1", "w2"}
CreateProcs == {"c1", "c2"}
ApproveProcs == {"a1", "a2"}
RejectProcs == {"r1", "r2"}
DirectProcs == {"d1", "d2"}

\* Handler slots in the order in which requests take them.
Slots == <<"w1", "w2", "c1", "c2", "a1", "a2", "r1", "r2", "d1", "d2">>
SlotOf(p) == CHOOSE k \in DOMAIN Slots : Slots[k] = p
Before(q, p) == SlotOf(q) < SlotOf(p)
InFlight(p) == p.pc \notin {"idle", "done"}

NoInvoice == [type |-> "none"]
NoSpend == <<>>
NoRecord == [status |-> "NONE", error |-> ""]
ThrownError == "processing_failed"   \* error.message of a thrown store error

\* Math.round((value + Number.EPSILON) * 100) / 100 applied to num/den cents:
\* the nearest cent, a half rounded up.
roundMoney(num, den) == (2 * num + den) \div (2 * den)

VARIABLES
  balance,          \* User.balance by telegram_id (cents)
  users,            \* telegram ids that have a User document
  gwInvoices,       \* invoices at the gateway: data, paid flag
  deliveries,       \* webhook requests received per invoice
  pendingInvoices,  \* the in-memory Map of cryptoBot.js
  invoices,         \* CryptoInvoice collection by invoice_id
  purchases,        \* Purchase collection: <<telegram_id, program_id>>
  purchaseCount,    \* Program.purchase_count
  programs,         \* ids of the Program documents that exist
  wh,               \* webhook handlers: position and locals
  ledger,           \* history: ledger effects applied per invoice
  hist,             \* history: how the deliveries of an invoice ended
  faults,           \* store calls that have thrown
  restarts,         \* restarts so far
  wr,               \* WithdrawalRequest collection
  cr,               \* create-withdrawal handlers: position and locals
  ap,               \* approve handlers: position and locals
  rj,               \* reject handlers: position and locals
  now,              \* Date.now(), in ticks of 10 minutes
  transfers,        \* payouts the gateway has made: spend_id, request, amount
  acct,             \* history: per request, the refunds and fee credits booked
  dw                \* direct-withdraw handlers: position and locals

vars == <<balance, users, gwInvoices, deliveries, pendingInvoices, invoices,
          purchases, purchaseCount, programs, wh, ledger, hist, faults, restarts,
          wr, cr, ap, rj, now, transfers, acct, dw>>

\* The state of the withdrawal workflow, and that of the webhook processor.
wdVars == <<wr, cr, ap, rj, now, transfers, acct, dw>>
whVars == <<users, gwInvoices, deliveries, pendingInvoices, invoices, purchases,
            purchaseCount, programs, wh, ledger, hist>>

IdleWebhook == [pc |-> "idle", inv |-> 0, resp |-> 0, fresh |-> FALSE,
                sawFailed |-> FALSE, reclaimed |-> FALSE, reason |-> ""]
IdleCreate == [pc |-> "idle", user |-> NoAccount, amount |-> 0, resp |-> 0, debited |-> FALSE]
IdleApprove == [pc |-> "idle", id |-> 0, resp |-> 0, spendId |-> NoSpend, claimed |-> FALSE,
                landed |-> FALSE, onPending |-> FALSE, gateway |-> ""]
IdleReject == [pc |-> "idle", id |-> 0, resp |-> 0]
IdleDirect == [pc |-> "idle", user |-> NoAccount, amount |-> 0, resp |-> 0]
NoRequest == [status |-> "NONE", telegram_id |-> NoAccount, amount |-> 0, spend_id |-> NoSpend,
              updated_at |-> 0, fee_amount |-> 0, net_amount |-> 0, reviewed_by |-> NoAccount]
NoAcct == [refunds |-> 0, fees |-> 0, swept |-> FALSE]
NoEffect == [dep |-> 0, rec |-> 0, author |-> 0, platform |-> 0]
NoHist == [ackedFresh |-> FALSE, ackedFailed |-> FALSE, reclaimed |-> FALSE,
           errored |-> FALSE, aborted |-> FALSE]

\* A handler that has answered: the create handler keeps its locals, the
\* approve handler only what the answer was about.
Done(p, code) == [p EXCEPT !.pc = "done", !.resp = code]
ApproveDone(p, code) ==
  [IdleApprove EXCEPT !.pc = "done", !.id = p.id, !.resp = code, !.onPending = p.onPending]

\* The state after start-up, the accounts holding the balances bal.
InitWith(bal, requests) ==
  /\ balance = bal
  /\ users = {"admin", "trainer"}
  /\ gwInvoices = [i \in InvoiceIds |-> NoInvoice]
  /\ deliveries = [i \in InvoiceIds |-> 0]
  /\ pendingInvoices = [i \in InvoiceIds |-> NoInvoice]
  /\ invoices = [i \in InvoiceIds |-> NoRecord]
  /\ purchases = {}
  /\ purchaseCount = [p \in ProgramIds |-> 0]
  /\ programs = ProgramIds
  /\ wh = [h \in WebhookProcs |-> IdleWebhook]
  /\ ledger = [i \in InvoiceIds |-> NoEffect]
  /\ hist = [i \in InvoiceIds |-> NoHist]
  /\ faults = 0
  /\ restarts = 0
  /\ wr = requests
  /\ cr = [c \in CreateProcs |-> IdleCreate]
  /\ ap = [a \in ApproveProcs |-> IdleApprove]
  /\ rj = [r \in RejectProcs |-> IdleReject]
  /\ now = 0
  /\ transfers = {}
  /\ acct = [w \in RequestIds |-> NoAcct]
  /\ dw = [d \in DirectProcs |-> IdleDirect]

Init == InitWith([a \in Accounts |-> 0], [w \in RequestIds |-> NoRequest])

\* ----------------------------------------------------------- ledger store
\* User.updateOne({telegram_id}, {$inc: {balance: amount}}): matches nothing
\* when the account has no document.
updateUserBalance(bal, telegramId, amount) ==
  IF telegramId \in users THEN [bal EXCEPT ![telegramId] = @ + amount] ELSE bal

\* ------------------------------------------------------- invoice creation
\* The smallest invoice id the gateway has not issued yet.
FreeInvoice(i) == gwInvoices[i] = NoInvoice /\ \A j \in 1..(i - 1) : gwInvoices[j] # NoInvoice

\* POST /deposit -> createDepositInvoice: the gateway issues the invoice and
\* the process remembers it in pendingInvoices.
CreateDepositInvoice(i, userId, amountUSD) ==
  /\ FreeInvoice(i)
  /\ amountUSD > 0
  /\ gwInvoices' = [gwInvoices EXCEPT ![i] =
       [type |-> "deposit", userId |-> userId, programId |-> "", trainerId |-> NoAccount,
        amount |-> amountUSD, paid |-> FALSE]]
  /\ pendingInvoices' = [pendingInvoices EXCEPT ![i] =
       [type |-> "deposit", userId |-> userId, programId |-> "", trainerId |-> NoAccount]]
  /\ UNCHANGED <<balance, users, deliveries, invoices, purchases, purchaseCount, programs, wh,
                 ledger, hist, faults, restarts, wdVars>>

\* POST /purchase -> createPurchaseInvoice: refused when the caller already
\* owns the program; the invoice amount is the program's price.
CreatePurchaseInvoice(i, userId, programId) ==
  /\ FreeInvoice(i)
  /\ programId \in programs
  /\ <<userId, programId>> \notin purchases
  /\ gwInvoices' = [gwInvoices EXCEPT ![i] =
       [type |-> "purchase", userId |-> userId, programId |-> programId,
        trainerId |-> Program[programId].authorId,
        amount |-> Program[programId].price, paid |-> FALSE]]
  /\ pendingInvoices' = [pendingInvoices EXCEPT ![i] =
       [type |-> "purchase", userId |-> userId, programId |-> programId,
        trainerId |-> Program[programId].authorId]]
  /\ UNCHANGED <<balance, users, deliveries, invoices, purchases, purchaseCount, programs, wh,
                 ledger, hist, faults, restarts, wdVars>>

\* The payer pays the invoice at the gateway, which from then on sends
\* invoice_paid events for it.
PayInvoice(i) ==
  /\ gwInvoices[i] # NoInvoice
  /\ ~gwInvoices[i].paid
  /\ gwInvoices' = [gwInvoices EXCEPT ![i].paid = TRUE]
  /\ UNCHANGED <<balance, users, deliveries, pendingInvoices, invoices, purchases,
                 purchaseCount, programs, wh, ledger, hist, faults, restarts, wdVars>>

\* ---------------------------------------------------------------- webhook
\* handleCryptoWebhook(update): null unless the event is invoice_paid and the
\* invoice id is still in this process's pendingInvoices; the entry is
\* deleted as it is handed out.  The function has no await, so it runs in
\* one piece.
handleCryptoWebhook(updateType, i) ==
  IF updateType # "invoice_paid" THEN NoInvoice ELSE pendingInvoices[i]

\* What the handler works on: type, user, program and trainer as handed out
\* by handleCryptoWebhook (the pendingInvoices entry, which holds what the
\* invoice was created with), the amount from the event.
Result(h) ==
  LET i == wh[h].inv IN
  [type |-> gwInvoices[i].type, userId |-> gwInvoices[i].userId,
   programId |-> gwInvoices[i].programId, trainerId |-> gwInvoices[i].trainerId,
   amount |-> gwInvoices[i].amount]

Finish(h, code) ==
  LET i == wh[h].inv IN
  /\ wh' = [wh EXCEPT ![h] = [IdleWebhook EXCEPT !.pc = "done", !.inv = i, !.resp = code]]
  /\ hist' = [hist EXCEPT ![i].ackedFresh = @ \/ (code = 200 /\ wh[h].fresh),
                          ![i].ackedFailed = @ \/ (code = 200 /\ wh[h].sawFailed
                                                               /\ ~wh[h].reclaimed),
                          ![i].errored = @ \/ (code = 500)]

\* Requests are served by handler slots; a request takes the first slot that
\* is not in use.
FirstFree(procs, state, p) ==
  /\ ~InFlight(state[p])
  /\ \A q \in procs : Before(q, p) => InFlight(state[q])

\* The crypto-pay-api-signature header of a request: absent, a hex string
\* that is not the HMAC of the body, or the HMAC of the body under the
\* SHA-256 of the configured token.
Signatures == {"missing", "mismatch", "hmac"}

\* verifyCryptoBotSignature(rawBody, signature): false without a signature,
\* otherwise whether the header equals the HMAC computed over the raw body.
verifyCryptoBotSignature(signature) ==
  IF signature = "missing" THEN FALSE ELSE signature = "hmac"

\* A webhook that looks the invoice up before it checks the signature.
WebhookReceive_LookupFirst(h, i, signed, updateType) ==
  /\ FirstFree(WebhookProcs, wh, h)
  /\ gwInvoices[i] # NoInvoice /\ gwInvoices[i].paid
  /\ deliveries[i] < MaxDeliveries
  /\ deliveries' = [deliveries EXCEPT ![i] = @ + 1]
  /\ LET result == handleCryptoWebhook(updateType, i) IN
       /\ pendingInvoices' = IF result = NoInvoice THEN pendingInvoices
                             ELSE [pendingInvoices EXCEPT ![i] = NoInvoice]
       /\ wh' = [wh EXCEPT ![h] =
            IF ~signed THEN [IdleWebhook EXCEPT !.pc = "done", !.inv = i, !.resp = 401]
            ELSE IF result = NoInvoice
              THEN [IdleWebhook EXCEPT !.pc = "done", !.inv = i, !.resp = 200]
            ELSE [IdleWebhook EXCEPT !.pc = "create", !.inv = i,
                                     !.fresh = (invoices[i].status = "NONE")]]
  /\ UNCHANGED <<balance, users, gwInvoices, invoices, purchases, purchaseCount,
                 programs, ledger, hist, faults, restarts, wdVars>>

\* router.post('/webhook'), up to the first await that can suspend: signature
\* check, handleCryptoWebhook, the two early acknowledgements.
WebhookReceive(h, i, signed, updateType) ==
  /\ FirstFree(WebhookProcs, wh, h)
  /\ gwInvoices[i] # NoInvoice /\ gwInvoices[i].paid
  /\ deliveries[i] < MaxDeliveries
  /\ deliveries' = [deliveries EXCEPT ![i] = @ + 1]
  /\ IF ~signed
       THEN /\ wh' = [wh EXCEPT ![h] = [IdleWebhook EXCEPT !.pc = "done", !.inv = i, !.resp = 401]]
            /\ UNCHANGED <<pendingInvoices, hist>>
       ELSE LET result == handleCryptoWebhook(updateType, i)
                fresh == updateType = "invoice_paid" /\ invoices[i].status = "NONE"
                sawFailed == /\ updateType = "invoice_paid"
                             /\ invoices[i].status = "FAILED"
                             /\ invoices[i].error = ThrownError
            IN IF result = NoInvoice
                 THEN /\ wh' = [wh EXCEPT ![h] = [IdleWebhook EXCEPT !.pc = "done", !.inv = i,
                                                                    !.resp = 200]]
                      /\ hist' = [hist EXCEPT ![i].ackedFresh = @ \/ fresh,
                                              ![i].ackedFailed = @ \/ sawFailed]
                      /\ UNCHANGED pendingInvoices
                 ELSE /\ wh' = [wh EXCEPT ![h] = [IdleWebhook EXCEPT !.pc = "create", !.inv = i,
                                    !.fresh = fresh, !.sawFailed = sawFailed]]
                      /\ pendingInvoices' = [pendingInvoices EXCEPT ![i] = NoInvoice]
                      /\ UNCHANGED hist
  /\ UNCHANGED <<balance, users, gwInvoices, invoices, purchases, purchaseCount,
                 programs, ledger, faults, restarts, wdVars>>

\* CryptoInvoice.create with status PROCESSING and, when the store reports a
\* duplicate key (11000), the look at the existing record and the reclaim of
\* a FAILED one (lines 75-104).  Three store calls, three steps.
WebhookClaim(h) ==
  LET i == wh[h].inv IN
  /\ wh[h].pc \in {"create", "findExisting", "reclaim"}
  /\ IF wh[h].pc = "create"
       THEN IF invoices[i].status = "NONE"
              THEN /\ invoices' = [invoices EXCEPT ![i] = [status |-> "PROCESSING", error |-> ""]]
                   /\ wh' = [wh EXCEPT ![h].pc = "dispatch"]
                   /\ UNCHANGED hist
              ELSE /\ wh' = [wh EXCEPT ![h].pc = "findExisting"]
                   /\ UNCHANGED <<invoices, hist>>
       ELSE IF wh[h].pc = "findExisting"
              THEN /\ UNCHANGED invoices
                   /\ IF invoices[i].status \in {"DONE", "PROCESSING"}
                        THEN Finish(h, 200)
                        ELSE wh' = [wh EXCEPT ![h].pc = "reclaim"] /\ UNCHANGED hist
              ELSE IF invoices[i].status = "FAILED"
                     THEN /\ invoices' = [invoices EXCEPT ![i] = [status |-> "PROCESSING", error |-> ""]]
                          /\ wh' = [wh EXCEPT ![h].pc = "dispatch", ![h].reclaimed = TRUE]
                          /\ hist' = [hist EXCEPT ![i].reclaimed = TRUE]
                     ELSE /\ UNCHANGED invoices
                          /\ Finish(h, 200)
  /\ UNCHANGED <<balance, users, gwInvoices, deliveries, pendingInvoices, purchases,
                 purchaseCount, programs, ledger, faults, restarts, wdVars>>

\* What follows the resolution of the account: the credit of a deposit, the
\* purchase check of a purchase.
AfterUser(h) == IF Result(h).type = "deposit" THEN "credit" ELSE "hasPurchased"

\* Lines 116-135 and 167-169: the switch on result.type with its first store
\* read: getUser for a deposit, getProgram for a purchase (a missing program
\* is failed for good), anything else is failed as unknown_type.
WebhookDispatch(h) ==
  LET r == Result(h) IN
  /\ wh[h].pc = "dispatch"
  /\ wh' = [wh EXCEPT ![h] =
       IF r.type = "deposit"
         THEN [@ EXCEPT !.pc = IF r.userId \in users THEN "credit" ELSE "createUser"]
       ELSE IF r.type = "purchase"
         THEN IF r.programId \in programs
                THEN [@ EXCEPT !.pc = "getUser"]
                ELSE [@ EXCEPT !.pc = "markFailed", !.reason = "program_not_found"]
       ELSE [@ EXCEPT !.pc = "markFailed", !.reason = "unknown_type"]]
  /\ UNCHANGED <<balance, users, gwInvoices, deliveries, pendingInvoices, invoices,
                 purchases, purchaseCount, programs, ledger, hist, faults, restarts, wdVars>>

\* getUser, then createUser for an account without a document: createUser
\* reads again and inserts; the insert of a telegram_id that meanwhile exists
\* throws the duplicate-key error, which the dispatch catch receives.
WebhookResolveUser(h) ==
  LET u == Result(h).userId IN
  /\ wh[h].pc \in {"getUser", "createUser", "userCreate"}
  /\ IF wh[h].pc = "getUser"
       THEN /\ wh' = [wh EXCEPT ![h].pc = IF u \in users THEN AfterUser(h) ELSE "createUser"]
            /\ UNCHANGED users
       ELSE IF wh[h].pc = "createUser"
         THEN /\ wh' = [wh EXCEPT ![h].pc = IF u \in users THEN AfterUser(h) ELSE "userCreate"]
              /\ UNCHANGED users
         ELSE IF u \in users
           THEN /\ wh' = [wh EXCEPT ![h].pc = "catch"]
                /\ UNCHANGED users
           ELSE /\ users' = users \cup {u}
                /\ wh' = [wh EXCEPT ![h].pc = AfterUser(h)]
  /\ UNCHANGED <<balance, gwInvoices, deliveries, pendingInvoices, invoices,
                 purchases, purchaseCount, programs, ledger, hist, faults, restarts, wdVars>>

\* Line 126: updateUserBalance(targetUserId, result.amount).
WebhookDepositCredit(h) ==
  LET r == Result(h) IN
  /\ wh[h].pc = "credit"
  /\ balance' = updateUserBalance(balance, r.userId, r.amount)
  /\ ledger' = [ledger EXCEPT ![wh[h].inv].dep = @ + 1]
  /\ wh' = [wh EXCEPT ![h].pc = "markDone"]
  /\ UNCHANGED <<users, gwInvoices, deliveries, pendingInvoices, invoices,
                 purchases, purchaseCount, programs, hist, faults, restarts, wdVars>>

\* A handler that calls purchaseProgram without asking hasPurchased first.
WebhookHasPurchased_Unasked(h) ==
  /\ wh[h].pc = "hasPurchased"
  /\ wh' = [wh EXCEPT ![h].pc = "purchaseCreate"]
  /\ UNCHANGED <<balance, users, gwInvoices, deliveries, pendingInvoices, invoices,
                 purchases, purchaseCount, programs, ledger, hist, faults, restarts, wdVars>>

\* Line 148: hasPurchased(buyer, programId).
WebhookHasPurchased(h) ==
  LET r == Result(h) IN
  /\ wh[h].pc = "hasPurchased"
  /\ wh' = [wh EXCEPT ![h].pc =
       IF <<r.userId, r.programId>> \in purchases THEN "markDone" ELSE "purchaseCreate"]
  /\ UNCHANGED <<balance, users, gwInvoices, deliveries, pendingInvoices, invoices,
                 purchases, purchaseCount, programs, ledger, hist, faults, restarts, wdVars>>

\* An author's share cut down to whole tenths instead of rounded to cents.
trainerShare_Truncated(paidAmount) == (paidAmount * 9) \div 10

\* The revenue split of lines 152-156.
trainerShare(paidAmount) == roundMoney(paidAmount * 9, 10)
adminShare(paidAmount) == paidAmount - trainerShare(paidAmount)

\* Where the handler goes after purchaseProgram, whatever it returned.
AfterPurchase(h) ==
  LET r == Result(h) IN
  IF r.amount > 0
    THEN IF r.trainerId # NoAccount THEN "creditTrainer"
         ELSE IF adminShare(r.amount) > 0 /\ adminTelegramId # NoAccount THEN "creditAdmin"
         ELSE "markDone"
    ELSE "markDone"

\* purchaseProgram (index.js): Purchase.create under the unique index on
\* (telegram_id, program_id), then the $inc of purchase_count; a duplicate
\* key is caught and returned as {success: false}, which line 150 ignores.
purchaseProgram(h) ==
  LET r == Result(h)
      key == <<r.userId, r.programId>> IN
  /\ wh[h].pc \in {"purchaseCreate", "purchaseInc"}
  /\ IF wh[h].pc = "purchaseCreate"
       THEN IF key \in purchases
              THEN /\ wh' = [wh EXCEPT ![h].pc = AfterPurchase(h)]
                   /\ UNCHANGED <<purchases, purchaseCount, ledger>>
              ELSE /\ purchases' = purchases \cup {key}
                   /\ ledger' = [ledger EXCEPT ![wh[h].inv].rec = @ + 1]
                   /\ wh' = [wh EXCEPT ![h].pc = "purchaseInc"]
                   /\ UNCHANGED purchaseCount
       ELSE /\ purchaseCount' = IF r.programId \in programs
                                  THEN [purchaseCount EXCEPT ![r.programId] = @ + 1]
                                  ELSE purchaseCount
            /\ wh' = [wh EXCEPT ![h].pc = AfterPurchase(h)]
            /\ UNCHANGED <<purchases, ledger>>
  /\ UNCHANGED <<balance, users, gwInvoices, deliveries, pendingInvoices, invoices,
                 programs, hist, faults, restarts, wdVars>>

\* Line 158: the author's share.
WebhookCreditTrainer(h) ==
  LET r == Result(h) IN
  /\ wh[h].pc = "creditTrainer"
  /\ balance' = updateUserBalance(balance, r.trainerId, trainerShare(r.amount))
  /\ ledger' = [ledger EXCEPT ![wh[h].inv].author = @ + 1]
  /\ wh' = [wh EXCEPT ![h].pc =
       IF adminShare(r.amount) > 0 /\ adminTelegramId # NoAccount THEN "creditAdmin" ELSE "markDone"]
  /\ UNCHANGED <<users, gwInvoices, deliveries, pendingInvoices, invoices,
                 purchases, purchaseCount, programs, hist, faults, restarts, wdVars>>

\* Line 161: the platform's share.
WebhookCreditAdmin(h) ==
  LET r == Result(h) IN
  /\ wh[h].pc = "creditAdmin"
  /\ balance' = updateUserBalance(balance, adminTelegramId, adminShare(r.amount))
  /\ ledger' = [ledger EXCEPT ![wh[h].inv].platform = @ + 1]
  /\ wh' = [wh EXCEPT ![h].pc = "markDone"]
  /\ UNCHANGED <<users, gwInvoices, deliveries, pendingInvoices, invoices,
                 purchases, purchaseCount, programs, hist, faults, restarts, wdVars>>

\* Lines 171-174 and 184: status DONE, then the acknowledgement.
WebhookMarkDone(h) ==
  /\ wh[h].pc = "markDone"
  /\ invoices' = [invoices EXCEPT ![wh[h].inv] = [status |-> "DONE", error |-> @.error]]
  /\ Finish(h, 200)
  /\ UNCHANGED <<balance, users, gwInvoices, deliveries, pendingInvoices,
                 purchases, purchaseCount, programs, ledger, faults, restarts, wdVars>>

\* A markInvoiceFailed that throws the reason instead of acknowledging, so
\* that the dispatch catch answers 500.
markInvoiceFailed_Throws(h) ==
  /\ wh[h].pc = "markFailed"
  /\ invoices' = [invoices EXCEPT ![wh[h].inv] = [status |-> "FAILED", error |-> wh[h].reason]]
  /\ Finish(h, 500)
  /\ UNCHANGED <<balance, users, gwInvoices, deliveries, pendingInvoices,
                 purchases, purchaseCount, programs, ledger, faults, restarts, wdVars>>

\* markInvoiceFailed(reason), lines 106-112: status FAILED, acknowledged.
markInvoiceFailed(h) ==
  /\ wh[h].pc = "markFailed"
  /\ invoices' = [invoices EXCEPT ![wh[h].inv] = [status |-> "FAILED", error |-> wh[h].reason]]
  /\ Finish(h, 200)
  /\ UNCHANGED <<balance, users, gwInvoices, deliveries, pendingInvoices,
                 purchases, purchaseCount, programs, ledger, faults, restarts, wdVars>>

\* Lines 175-188: the dispatch catch marks the record FAILED with the error's
\* message and rethrows; the outer catch answers 500.
WebhookCatch(h) ==
  /\ wh[h].pc = "catch"
  /\ invoices' = [invoices EXCEPT ![wh[h].inv] = [status |-> "FAILED", error |-> ThrownError]]
  /\ Finish(h, 500)
  /\ UNCHANGED <<balance, users, gwInvoices, deliveries, pendingInvoices,
                 purchases, purchaseCount, programs, ledger, faults, restarts, wdVars>>

DispatchPcs == {"dispatch", "getUser", "createUser", "userCreate", "credit", "hasPurchased",
                "purchaseCreate", "purchaseInc", "creditTrainer", "creditAdmin",
                "markDone", "markFailed"}

\* A store call that throws after its write went through: the DONE update is
\* applied and the handler still lands in the dispatch catch.
WebhookStoreThrows_AfterWrite(h) ==
  /\ wh[h].pc = "markDone"
  /\ faults < MaxFaults
  /\ faults' = faults + 1
  /\ invoices' = [invoices EXCEPT ![wh[h].inv] = [status |-> "DONE", error |-> @.error]]
  /\ wh' = [wh EXCEPT ![h].pc = "catch"]
  /\ UNCHANGED <<balance, users, gwInvoices, deliveries, pendingInvoices, hist,
                 purchases, purchaseCount, programs, ledger, restarts, wdVars>>

\* A store call of the webhook handler throws (store unreachable): inside the
\* dispatch try it lands in the dispatch catch, elsewhere (the insert of the
\* record, the update of the catch itself) in the outer catch.
WebhookStoreThrows(h) ==
  /\ wh[h].pc \in DispatchPcs \cup {"create", "findExisting", "reclaim", "catch"}
  /\ faults < MaxFaults
  /\ faults' = faults + 1
  /\ IF wh[h].pc \in DispatchPcs
       THEN wh' = [wh EXCEPT ![h].pc = "catch"] /\ UNCHANGED hist
       ELSE Finish(h, 500)
  /\ UNCHANGED <<balance, users, gwInvoices, deliveries, pendingInvoices, invoices,
                 purchases, purchaseCount, programs, ledger, restarts, wdVars>>

\* deleteProgram (index.js): an author removes a program.
deleteProgram(p) ==
  /\ p \in programs
  /\ programs' = programs \ {p}
  /\ UNCHANGED <<balance, users, gwInvoices, deliveries, pendingInvoices, invoices,
                 purchases, purchaseCount, wh, ledger, hist, faults, restarts, wdVars>>

\* ------------------------------------------------------ withdrawal: create
\* debitUserBalanceIfEnough(telegramId, amount): one conditional update of
\* the store, which debits only a balance that covers the amount.
debitUserBalanceIfEnough(telegramId, amount) ==
  telegramId \in users /\ balance[telegramId] >= amount

\* The smallest request id not in use (wr_<Date.now()>_<random> in the code).
FreeRequest(w) == wr[w].status = "NONE" /\ \A v \in 1..(w - 1) : wr[v].status # "NONE"

\* POST /withdrawals, lines 282-289: role and amount checks.
CreateReceive(c, u, amount) ==
  /\ FirstFree(CreateProcs, cr, c)
  /\ Cardinality({w \in RequestIds : wr[w].status # "NONE"})
       + Cardinality({d \in CreateProcs : cr[d].pc \notin {"idle", "done"}}) < MaxRequests
  /\ cr' = [cr EXCEPT ![c] =
       IF amount <= 0
         THEN [IdleCreate EXCEPT !.pc = "done", !.user = u, !.amount = amount, !.resp = 400]
         ELSE [IdleCreate EXCEPT !.pc = "getUser", !.user = u, !.amount = amount]]
  /\ UNCHANGED <<balance, faults, restarts, whVars, dw, wr, ap, rj, now, transfers, acct>>

\* Lines 291-294: getUser.
CreateGetUser(c) ==
  /\ cr[c].pc = "getUser"
  /\ cr' = [cr EXCEPT ![c] =
       IF cr[c].user \in users THEN [@ EXCEPT !.pc = "debit"]
       ELSE Done(@, 404)]
  /\ UNCHANGED <<balance, faults, restarts, whVars, dw, wr, ap, rj, now, transfers, acct>>

\* The escrow debit as an unconditional $inc of -amount.
CreateDebit_Unchecked(c) ==
  /\ cr[c].pc = "debit"
  /\ balance' = updateUserBalance(balance, cr[c].user, 0 - cr[c].amount)
  /\ cr' = [cr EXCEPT ![c].pc = "persist", ![c].debited = TRUE]
  /\ UNCHANGED <<faults, restarts, whVars, dw, wr, ap, rj, now, transfers, acct>>

\* Lines 297-301: the escrow debit; 400 when the balance does not cover it.
CreateDebit(c) ==
  /\ cr[c].pc = "debit"
  /\ IF debitUserBalanceIfEnough(cr[c].user, cr[c].amount)
       THEN /\ balance' = [balance EXCEPT ![cr[c].user] = @ - cr[c].amount]
            /\ cr' = [cr EXCEPT ![c].pc = "persist", ![c].debited = TRUE]
       ELSE /\ cr' = [cr EXCEPT ![c].pc = "done", ![c].resp = 400]
            /\ UNCHANGED balance
  /\ UNCHANGED <<faults, restarts, whVars, dw, wr, ap, rj, now, transfers, acct>>

\* A create that persists the request as already claimed.
CreatePersist_Processing(c) ==
  /\ cr[c].pc = "persist"
  /\ \E w \in RequestIds :
       /\ FreeRequest(w)
       /\ wr' = [wr EXCEPT ![w] = [NoRequest EXCEPT !.status = "PROCESSING",
                    !.telegram_id = cr[c].user, !.amount = cr[c].amount, !.updated_at = now]]
  /\ cr' = [cr EXCEPT ![c].pc = "done", ![c].resp = 200]
  /\ UNCHANGED <<balance, faults, restarts, whVars, dw, ap, rj, now, transfers, acct>>

\* Lines 303-325: WithdrawalRequest.create in PENDING, then the answer.
CreatePersist(c) ==
  /\ cr[c].pc = "persist"
  /\ \E w \in RequestIds :
       /\ FreeRequest(w)
       /\ wr' = [wr EXCEPT ![w] = [NoRequest EXCEPT !.status = "PENDING",
                    !.telegram_id = cr[c].user, !.amount = cr[c].amount, !.updated_at = now]]
  /\ cr' = [cr EXCEPT ![c].pc = "done", ![c].resp = 200]
  /\ UNCHANGED <<balance, faults, restarts, whVars, dw, ap, rj, now, transfers, acct>>

\* Lines 326-331: the compensation after a failed create, then 500.
CreateRefund(c) ==
  /\ cr[c].pc = "refund"
  /\ balance' = IF cr[c].debited THEN updateUserBalance(balance, cr[c].user, cr[c].amount)
                ELSE balance
  /\ cr' = [cr EXCEPT ![c].pc = "done", ![c].resp = 500]
  /\ UNCHANGED <<faults, restarts, whVars, dw, wr, ap, rj, now, transfers, acct>>

\* A store call of the create handler throws: inside the inner try the catch
\* refunds what was debited; getUser and the refund itself end in the outer
\* catch.
CreateStoreThrows(c) ==
  /\ cr[c].pc \in {"getUser", "debit", "persist", "refund"}
  /\ faults < MaxCreateFaults
  /\ faults' = faults + 1
  /\ cr' = [cr EXCEPT ![c] =
       IF cr[c].pc \in {"debit", "persist"} THEN [@ EXCEPT !.pc = "refund"]
       ELSE Done(@, 500)]
  /\ UNCHANGED <<balance, restarts, whVars, dw, wr, ap, rj, now, transfers, acct>>

\* ----------------------------------------------------- withdrawal: approve
WITHDRAWAL_PROCESSING_TIMEOUT == 1   \* 10 minutes, which the clock counts as one tick
DefaultFeePercent == 3

\* getWithdrawalFeePercent: the stored setting when it is a finite number,
\* else 3.  No setting is stored.
FeeSetting == [finite |-> FALSE, value |-> 0]
getWithdrawalFeePercent == IF FeeSetting.finite THEN FeeSetting.value ELSE DefaultFeePercent

\* A fee cut down to whole cents instead of rounded.
feeAmount_Truncated(amount) == (amount * getWithdrawalFeePercent) \div 100

feeAmount(amount) == roundMoney(amount * getWithdrawalFeePercent, 100)
netAmount(amount) == amount - feeAmount(amount)

\* POST /withdrawals/:id/approve arrives (role check, line 399).
ApproveReceive(a, w) ==
  /\ FirstFree(ApproveProcs, ap, a)
  /\ ap' = [ap EXCEPT ![a] = [IdleApprove EXCEPT !.pc = "load", !.id = w,
                                 !.onPending = (wr[w].status = "PENDING")]]
  /\ UNCHANGED <<balance, faults, restarts, whVars, dw, wr, cr, rj, now, transfers, acct>>

\* A load without the terminal-state check of lines 409-411.
ApproveLoad_NoTerminalCheck(a) ==
  LET request == wr[ap[a].id] IN
  /\ ap[a].pc = "load"
  /\ ap' = [ap EXCEPT ![a] =
       IF request.status = "NONE" THEN ApproveDone(@, 404)
       ELSE [@ EXCEPT !.spendId = IF request.spend_id # NoSpend THEN request.spend_id
                                     ELSE <<request.telegram_id, now>>,
                      !.pc = IF request.status = "PENDING" THEN "claim"
                             ELSE IF request.spend_id = NoSpend THEN "setSpend" ELSE "transfer"]]
  /\ UNCHANGED <<balance, faults, restarts, whVars, dw, wr, cr, rj, now, transfers, acct>>

\* Lines 404-413: findOne, 404 / 400 on a missing or terminal request, and
\* the spend id: the persisted one, else withdraw_<telegram_id>_<Date.now()>.
\* A request found PENDING goes on to the claim; one found PROCESSING goes on
\* to the transfer (after storing the spend id if it has none).
ApproveLoad(a) ==
  LET request == wr[ap[a].id] IN
  /\ ap[a].pc = "load"
  /\ ap' = [ap EXCEPT ![a] =
       IF request.status = "NONE" THEN ApproveDone(@, 404)
       ELSE IF request.status \in {"APPROVED", "REJECTED"} THEN ApproveDone(@, 400)
       ELSE [@ EXCEPT !.spendId = IF request.spend_id # NoSpend THEN request.spend_id
                                     ELSE <<request.telegram_id, now>>,
                      !.pc = IF request.status = "PENDING" THEN "claim"
                             ELSE IF request.spend_id = NoSpend THEN "setSpend" ELSE "transfer"]]
  /\ UNCHANGED <<balance, faults, restarts, whVars, dw, wr, cr, rj, now, transfers, acct>>

\* Lines 415-432: the conditional update PENDING -> PROCESSING that stores the
\* spend id, 409 when it matches nothing; for a request loaded as PROCESSING
\* without a spend id, the update that stores one.
ApproveClaim(a) ==
  LET w == ap[a].id IN
  /\ ap[a].pc \in {"claim", "setSpend"}
  /\ IF ap[a].pc = "claim"
       THEN IF wr[w].status = "PENDING"
              THEN /\ wr' = [wr EXCEPT ![w].status = "PROCESSING",
                                       ![w].spend_id = ap[a].spendId,
                                       ![w].updated_at = now]
                   /\ ap' = [ap EXCEPT ![a].pc = "transfer", ![a].claimed = TRUE]
              ELSE /\ ap' = [ap EXCEPT ![a] = ApproveDone(@, 409)]
                   /\ UNCHANGED wr
       ELSE /\ wr' = IF wr[w].status = "PROCESSING"
                       THEN [wr EXCEPT ![w].spend_id = ap[a].spendId, ![w].updated_at = now]
                       ELSE wr
            /\ ap' = [ap EXCEPT ![a].pc = "transfer"]
  /\ UNCHANGED <<balance, faults, restarts, whVars, dw, cr, rj, now, transfers, acct>>

\* withdrawToTrainer(trainerId, asset, amount, comment) of cryptoBot.js: it
\* has four parameters, so the spend id passed fifth is dropped, and sends
\* spend_id withdraw_<trainerId>_<Date.now()>.
withdrawToTrainer(trainerId, spendId) == <<trainerId, now>>

\* The gateway's answer to a transfer: it pays out once per spend_id and
\* answers a repeated one with its duplicate error; when it cannot be reached
\* or refuses, the call fails with another error.
GatewayAnswer(key, gatewayUp) ==
  IF ~gatewayUp THEN "error"
  ELSE IF \E t \in transfers : t.key = key THEN "duplicate" ELSE "ok"

\* A catch that takes the duplicate error for a failure like any other.
ApproveTransfer_DuplicateReverts(a, gatewayUp) ==
  LET w == ap[a].id
      key == withdrawToTrainer(wr[w].telegram_id, ap[a].spendId)
      answer == GatewayAnswer(key, gatewayUp) IN
  /\ ap[a].pc = "transfer"
  /\ ap' = [ap EXCEPT ![a].pc = IF answer = "ok" THEN "finalize" ELSE "revert",
                      ![a].gateway = answer]
  /\ transfers' = IF answer = "ok"
                    THEN transfers \cup {[key |-> key, w |-> w,
                                          amount |-> netAmount(wr[w].amount)]}
                    ELSE transfers
  /\ UNCHANGED <<balance, faults, restarts, whVars, dw, wr, cr, rj, now, acct>>

\* Lines 434-457: fee and net, then the transfer.  An error whose message
\* matches /spend_id|duplicate|SPEND_ID/i is swallowed by the catch and the
\* handler goes on as after a transfer that succeeded; any other error sends
\* it to the revert.
ApproveTransfer(a, gatewayUp) ==
  LET w == ap[a].id
      key == withdrawToTrainer(wr[w].telegram_id, ap[a].spendId)
      answer == GatewayAnswer(key, gatewayUp)
      isDuplicate == answer = "duplicate" IN
  /\ ap[a].pc = "transfer"
  /\ ap' = [ap EXCEPT ![a].pc = IF answer = "ok" \/ isDuplicate THEN "finalize" ELSE "revert",
                      ![a].gateway = answer]
  /\ transfers' = IF answer = "ok"
                    THEN transfers \cup {[key |-> key, w |-> w,
                                          amount |-> netAmount(wr[w].amount)]}
                    ELSE transfers
  /\ UNCHANGED <<balance, faults, restarts, whVars, dw, wr, cr, rj, now, acct>>

\* The revert as an update by id alone, whatever the status.
ApproveRevert_AnyStatus(a) ==
  LET w == ap[a].id IN
  /\ ap[a].pc = "revert"
  /\ wr' = [wr EXCEPT ![w].status = "PENDING", ![w].updated_at = now]
  /\ ap' = [ap EXCEPT ![a] = ApproveDone(@, 500)]
  /\ UNCHANGED <<balance, faults, restarts, whVars, dw, cr, rj, now, transfers, acct>>

\* A catch that rethrows without putting the request back.
ApproveRevert_Rethrow(a) ==
  /\ ap[a].pc = "revert"
  /\ ap' = [ap EXCEPT ![a] = ApproveDone(@, 500)]
  /\ UNCHANGED <<balance, faults, restarts, whVars, dw, wr, cr, rj, now, transfers, acct>>

\* Lines 450-455: back to PENDING if still PROCESSING, then the error: 500.
ApproveRevert(a) ==
  LET w == ap[a].id IN
  /\ ap[a].pc = "revert"
  /\ wr' = IF wr[w].status = "PROCESSING"
             THEN [wr EXCEPT ![w].status = "PENDING", ![w].updated_at = now]
             ELSE wr
  /\ ap' = [ap EXCEPT ![a] = ApproveDone(@, 500)]
  /\ UNCHANGED <<balance, faults, restarts, whVars, dw, cr, rj, now, transfers, acct>>

\* Lines 459-473: the conditional update PROCESSING -> APPROVED with reviewer,
\* fee, net and spend id; its result is not looked at.
ApproveFinalize(a) ==
  LET w == ap[a].id IN
  /\ ap[a].pc = "finalize"
  /\ wr' = IF wr[w].status = "PROCESSING"
             THEN [wr EXCEPT ![w].status = "APPROVED", ![w].reviewed_by = "admin",
                             ![w].fee_amount = feeAmount(wr[w].amount),
                             ![w].net_amount = netAmount(wr[w].amount),
                             ![w].spend_id = ap[a].spendId, ![w].updated_at = now]
             ELSE wr
  /\ ap' = [ap EXCEPT ![a].pc = "recheck", ![a].landed = (wr[w].status = "PROCESSING")]
  /\ UNCHANGED <<balance, faults, restarts, whVars, dw, cr, rj, now, transfers, acct>>

\* Lines 475-481: the request is read again; 500 unless it is APPROVED.
ApproveRecheck(a) ==
  LET w == ap[a].id IN
  /\ ap[a].pc = "recheck"
  /\ ap' = [ap EXCEPT ![a] =
       IF wr[w].status # "APPROVED" THEN ApproveDone(@, 500)
       ELSE IF feeAmount(wr[w].amount) > 0 /\ adminTelegramId # NoAccount
         THEN [@ EXCEPT !.pc = "creditFee"]
       ELSE ApproveDone(@, 200)]
  /\ UNCHANGED <<balance, faults, restarts, whVars, dw, wr, cr, rj, now, transfers, acct>>

\* Lines 483-501: the fee goes to the platform account, then the answer.
ApproveCreditFee(a) ==
  LET w == ap[a].id
      fee == feeAmount(wr[w].amount) IN
  /\ ap[a].pc = "creditFee"
  /\ balance' = updateUserBalance(balance, adminTelegramId, fee)
  /\ acct' = [acct EXCEPT ![w].fees = @ + 1]
  /\ ap' = [ap EXCEPT ![a] = ApproveDone(@, 200)]
  /\ UNCHANGED <<faults, restarts, whVars, dw, wr, cr, rj, now, transfers>>

\* A store call of the approve handler throws: the outer catch answers 500.
ApproveStoreThrows(a) ==
  /\ ap[a].pc \in {"load", "claim", "setSpend", "revert", "finalize", "recheck", "creditFee"}
  /\ faults < MaxFaults
  /\ faults' = faults + 1
  /\ ap' = [ap EXCEPT ![a] = ApproveDone(@, 500)]
  /\ UNCHANGED <<balance, restarts, whVars, dw, wr, cr, rj, now, transfers, acct>>

\* ------------------------------------------------------ withdrawal: reject
\* A reject that reads the request and then updates it by id alone.
RejectClaim_ByIdOnly(r, w) ==
  /\ FirstFree(RejectProcs, rj, r)
  /\ IF wr[w].status # "NONE"
       THEN /\ wr' = [wr EXCEPT ![w].status = "REJECTED", ![w].reviewed_by = "admin",
                                ![w].updated_at = now]
            /\ rj' = [rj EXCEPT ![r] = [pc |-> "refund", id |-> w, resp |-> 0]]
       ELSE /\ rj' = [rj EXCEPT ![r] = [pc |-> "done", id |-> w, resp |-> 404]]
            /\ UNCHANGED wr
  /\ UNCHANGED <<balance, faults, restarts, whVars, dw, cr, ap, now, transfers, acct>>

\* POST /withdrawals/:id/reject, lines 517-533: the conditional update
\* PENDING -> REJECTED, 404 when it matches nothing.
RejectClaim(r, w) ==
  /\ FirstFree(RejectProcs, rj, r)
  /\ IF wr[w].status = "PENDING"
       THEN /\ wr' = [wr EXCEPT ![w].status = "REJECTED", ![w].reviewed_by = "admin",
                                ![w].updated_at = now]
            /\ rj' = [rj EXCEPT ![r] = [pc |-> "refund", id |-> w, resp |-> 0]]
       ELSE /\ rj' = [rj EXCEPT ![r] = [pc |-> "done", id |-> w, resp |-> 404]]
            /\ UNCHANGED wr
  /\ UNCHANGED <<balance, faults, restarts, whVars, dw, cr, ap, now, transfers, acct>>

\* Lines 535-548: the escrowed amount goes back to the requester.
RejectRefund(r) ==
  LET w == rj[r].id IN
  /\ rj[r].pc = "refund"
  /\ balance' = updateUserBalance(balance, wr[w].telegram_id, wr[w].amount)
  /\ acct' = [acct EXCEPT ![w].refunds = @ + 1]
  /\ rj' = [rj EXCEPT ![r].pc = "done", ![r].resp = 200]
  /\ UNCHANGED <<faults, restarts, whVars, dw, wr, cr, ap, now, transfers>>

\* The refund's store call throws: the outer catch answers 500.
RejectStoreThrows(r) ==
  /\ rj[r].pc = "refund"
  /\ faults < MaxFaults
  /\ faults' = faults + 1
  /\ rj' = [rj EXCEPT ![r].pc = "done", ![r].resp = 500]
  /\ UNCHANGED <<balance, restarts, whVars, dw, wr, cr, ap, now, transfers, acct>>

\* ------------------------------------------------- withdrawal: direct path
\* POST /withdraw arrives, lines 559-590: role check and the checks of the
\* amount; the caller withdraws to and from their own account.
DirectReceive(d, u, amount) ==
  /\ FirstFree(DirectProcs, dw, d)
  /\ dw' = [dw EXCEPT ![d] =
       IF amount <= 0
         THEN [IdleDirect EXCEPT !.pc = "done", !.user = u, !.amount = amount, !.resp = 400]
         ELSE [IdleDirect EXCEPT !.pc = "getUser", !.user = u, !.amount = amount]]
  /\ UNCHANGED <<balance, faults, restarts, whVars, wr, cr, ap, rj, now, transfers, acct>>

\* Lines 592-598: getUser, 404 without a document, 400 when the balance read
\* does not cover the amount.
DirectGetUser(d) ==
  /\ dw[d].pc = "getUser"
  /\ dw' = [dw EXCEPT ![d] =
       IF dw[d].user \notin users THEN Done(@, 404)
       ELSE IF balance[dw[d].user] < dw[d].amount THEN Done(@, 400)
       ELSE [@ EXCEPT !.pc = "transfer"]]
  /\ UNCHANGED <<balance, faults, restarts, whVars, wr, cr, ap, rj, now, transfers, acct>>

\* Lines 601-608: withdrawToTrainer with the amount; any error of the gateway,
\* its duplicate error included, goes to the catch: 500.
DirectTransfer(d, gatewayUp) ==
  LET key == withdrawToTrainer(dw[d].user, NoSpend)
      answer == GatewayAnswer(key, gatewayUp) IN
  /\ dw[d].pc = "transfer"
  /\ dw' = [dw EXCEPT ![d] = IF answer = "ok" THEN [@ EXCEPT !.pc = "debit"] ELSE Done(@, 500)]
  /\ transfers' = IF answer = "ok"
                    THEN transfers \cup {[key |-> key, w |-> 0, amount |-> dw[d].amount]}
                    ELSE transfers
  /\ UNCHANGED <<balance, faults, restarts, whVars, wr, cr, ap, rj, now, acct>>

\* Lines 610-619: updateUserBalance(owner, -amount), then the answer; the fee
\* of this path is the constant 0, so line 612 credits nothing.
DirectDebit(d) ==
  /\ dw[d].pc = "debit"
  /\ balance' = updateUserBalance(balance, dw[d].user, 0 - dw[d].amount)
  /\ dw' = [dw EXCEPT ![d] = Done(@, 200)]
  /\ UNCHANGED <<faults, restarts, whVars, wr, cr, ap, rj, now, transfers, acct>>

\* A store call of the direct-withdraw handler throws: the catch answers 500.
DirectStoreThrows(d) ==
  /\ dw[d].pc \in {"getUser", "debit"}
  /\ faults < MaxFaults
  /\ faults' = faults + 1
  /\ dw' = [dw EXCEPT ![d] = Done(@, 500)]
  /\ UNCHANGED <<balance, restarts, whVars, wr, cr, ap, rj, now, transfers, acct>>

\* ------------------------------------------------------------------- sweep
Stale(w) == wr[w].status = "PROCESSING"
            /\ wr[w].updated_at < now - WITHDRAWAL_PROCESSING_TIMEOUT

\* A sweep that refreshes updated_at of the stale requests and leaves their
\* status alone.
Sweep_TouchOnly ==
  /\ \E w \in RequestIds : Stale(w)
  /\ wr' = [w \in RequestIds |->
       IF Stale(w) THEN [wr[w] EXCEPT !.updated_at = now] ELSE wr[w]]
  /\ acct' = [w \in RequestIds |-> [acct[w] EXCEPT !.swept = @ \/ Stale(w)]]
  /\ UNCHANGED <<balance, faults, restarts, whVars, dw, cr, ap, rj, now, transfers>>

\* A sweep whose filter leaves out the cutoff: every PROCESSING request goes
\* back to PENDING.
Sweep_NoCutoff ==
  /\ \E w \in RequestIds : Stale(w)
  /\ wr' = [w \in RequestIds |->
       IF wr[w].status = "PROCESSING"
         THEN [wr[w] EXCEPT !.status = "PENDING", !.updated_at = now] ELSE wr[w]]
  /\ acct' = [w \in RequestIds |-> [acct[w] EXCEPT !.swept = @ \/ Stale(w)]]
  /\ UNCHANGED <<balance, faults, restarts, whVars, dw, cr, ap, rj, now, transfers>>

\* The setInterval callback of the server's start(): one updateMany that sets
\* every stale PROCESSING request back to PENDING.
Sweep ==
  /\ \E w \in RequestIds : Stale(w)
  /\ wr' = [w \in RequestIds |->
       IF Stale(w) THEN [wr[w] EXCEPT !.status = "PENDING", !.updated_at = now] ELSE wr[w]]
  /\ acct' = [w \in RequestIds |-> [acct[w] EXCEPT !.swept = @ \/ Stale(w)]]
  /\ UNCHANGED <<balance, faults, restarts, whVars, dw, cr, ap, rj, now, transfers>>

\* Time passes.
Tick ==
  /\ now < MaxTime
  /\ now' = now + 1
  /\ UNCHANGED <<balance, faults, restarts, whVars, dw, wr, cr, ap, rj, transfers, acct>>

\* ----------------------------------------------------------------- restart

\* The process exits (SIGTERM, crash, deploy) and starts again: what it held
\* in memory is gone, the handlers in flight with it; the store, the gateway
\* and the clock are untouched.
Restart ==
  /\ restarts < MaxRestarts
  /\ restarts' = restarts + 1
  /\ pendingInvoices' = [i \in InvoiceIds |-> NoInvoice]
  /\ hist' = [i \in InvoiceIds |->
       [hist[i] EXCEPT !.aborted = @ \/ \E h \in WebhookProcs : InFlight(wh[h]) /\ wh[h].inv = i]]
  /\ wh' = [h \in WebhookProcs |-> IF InFlight(wh[h]) THEN IdleWebhook ELSE wh[h]]
  /\ cr' = [c \in CreateProcs |-> IF InFlight(cr[c]) THEN IdleCreate ELSE cr[c]]
  /\ ap' = [a \in ApproveProcs |-> IF InFlight(ap[a]) THEN IdleApprove ELSE ap[a]]
  /\ rj' = [r \in RejectProcs |-> IF InFlight(rj[r]) THEN IdleReject ELSE rj[r]]
  /\ dw' = [d \in DirectProcs |-> IF InFlight(dw[d]) THEN IdleDirect ELSE dw[d]]
  /\ UNCHANGED <<balance, users, gwInvoices, deliveries, invoices, purchases, purchaseCount,
                 programs, ledger, faults, wr, now, transfers, acct>>

\* ---------------------------------------------------------- specifications
WebhookStep(h) ==
  \/ WebhookClaim(h)
  \/ WebhookDispatch(h)
  \/ WebhookResolveUser(h)
  \/ WebhookDepositCredit(h)
  \/ WebhookHasPurchased(h)
  \/ purchaseProgram(h)
  \/ WebhookCreditTrainer(h)
  \/ WebhookCreditAdmin(h)
  \/ WebhookMarkDone(h)
  \/ markInvoiceFailed(h)
  \/ WebhookCatch(h)
  \/ WebhookStoreThrows(h)

CreateStep(c) ==
  \/ \E u \in Requesters, amount \in WithdrawAmounts \cup {0} : CreateReceive(c, u, amount)
  \/ CreateGetUser(c)
  \/ CreateDebit(c)
  \/ CreatePersist(c)
  \/ CreateRefund(c)
  \/ CreateStoreThrows(c)

ApproveStep(a) ==
  \/ \E w \in RequestIds : wr[w].status # "NONE" /\ ApproveReceive(a, w)
  \/ ApproveLoad(a)
  \/ ApproveClaim(a)
  \/ \E gatewayUp \in BOOLEAN : ApproveTransfer(a, gatewayUp)
  \/ ApproveRevert(a)
  \/ ApproveFinalize(a)
  \/ ApproveRecheck(a)
  \/ ApproveCreditFee(a)
  \/ ApproveStoreThrows(a)

RejectStep(r) ==
  \/ \E w \in RequestIds : wr[w].status # "NONE" /\ RejectClaim(r, w)
  \/ RejectRefund(r)
  \/ RejectStoreThrows(r)

\* Payments in: invoices, their webhooks, restarts.
Next ==
  \/ \E i \in InvoiceIds, u \in DepositUsers, amount \in DepositAmounts :
       CreateDepositInvoice(i, u, amount)
  \/ \E i \in InvoiceIds, p \in ProgramIds : CreatePurchaseInvoice(i, "buyer", p)
  \/ \E i \in InvoiceIds : PayInvoice(i)
  \/ \E h \in WebhookProcs, i \in InvoiceIds, signature \in Signatures, t \in UpdateTypes :
       WebhookReceive(h, i, verifyCryptoBotSignature(signature), t)
  \/ \E h \in WebhookProcs : WebhookStep(h)
  \/ \E p \in ProgramIds : deleteProgram(p)
  \/ Restart

Spec == Init /\ [][Next]_vars

\* The withdrawal workflow on an account that has earned a balance.
\* Payments in and the escrow of withdrawals: deposits, purchases and the
\* creation of withdrawal requests, two of them at a time.
NextEscrow ==
  \/ \E i \in InvoiceIds, amount \in DepositAmounts : CreateDepositInvoice(i, "trainer", amount)
  \/ \E i \in InvoiceIds, p \in ProgramIds : CreatePurchaseInvoice(i, "buyer", p)
  \/ \E i \in InvoiceIds : PayInvoice(i)
  \/ \E i \in InvoiceIds :
       WebhookReceive("w1", i, verifyCryptoBotSignature("hmac"), "invoice_paid")
  \/ WebhookStep("w1")
  \/ \E p \in ProgramIds : deleteProgram(p)
  \/ \E c \in CreateProcs : CreateStep(c)

SpecEscrow == Init /\ [][NextEscrow]_vars

\* The withdrawal workflow on a request in escrow: the requester had earned
\* EarnedBalance and has created request 1.
InitWithdraw ==
  \E amount \in WithdrawAmounts :
    InitWith([a \in Accounts |-> IF a = "trainer" THEN EarnedBalance - amount ELSE 0],
             [w \in RequestIds |->
                IF w = 1 THEN [NoRequest EXCEPT !.status = "PENDING", !.telegram_id = "trainer",
                                                !.amount = amount]
                ELSE NoRequest])

NextWithdraw ==
  \/ \E a \in ApproveProcs : ApproveStep(a)
  \/ RejectStep("r1")
  \/ Sweep
  \/ Tick
  \/ Restart

SpecWithdraw == InitWithdraw /\ [][NextWithdraw]_vars

\* One webhook handler serving invoice_paid events whose signature header is
\* absent, wrong or right.
NextSignature ==
  \/ \E i \in InvoiceIds, u \in DepositUsers, amount \in DepositAmounts :
       CreateDepositInvoice(i, u, amount)
  \/ \E i \in InvoiceIds, p \in ProgramIds : CreatePurchaseInvoice(i, "buyer", p)
  \/ \E i \in InvoiceIds : PayInvoice(i)
  \/ \E i \in InvoiceIds, signature \in Signatures :
       WebhookReceive("w1", i, verifyCryptoBotSignature(signature), "invoice_paid")
  \/ WebhookStep("w1")
  \/ \E p \in ProgramIds : deleteProgram(p)

SpecSignature == Init /\ [][NextSignature]_vars

\* Two reviewers rejecting and one approving one escrowed request, with the
\* sweep.
NextReject ==
  \/ \E r \in RejectProcs : RejectStep(r)
  \/ ApproveStep("a1")
  \/ Sweep
  \/ Tick

SpecReject == InitWithdraw /\ [][NextReject]_vars

\* The sweep with one reviewer at work; the timer keeps firing.
NextSweep ==
  \/ ApproveStep("a1")
  \/ Sweep
  \/ Tick
  \/ Restart

SpecSweep == InitWithdraw /\ [][NextSweep]_vars /\ WF_vars(Sweep)

\* Two requests of the trainer wait for review, their amounts in escrow; one
\* reviewer approves, the process may stop, time passes and the sweep runs.
InitSweepFrame ==
  InitWith([a \in Accounts |-> 0],
           [w \in RequestIds |->
              [NoRequest EXCEPT !.status = "PENDING", !.telegram_id = "trainer",
                                !.amount = IF w = 1 THEN 1000 ELSE 5000]])

SpecSweepFrame == InitSweepFrame /\ [][NextSweep]_vars

\* A moderator's account holds DirectBalance; the moderator sends direct
\* withdrawals and creates withdrawal requests, while time passes.
DirectBalance == 1000
DirectAmounts == {1000}

InitDirect ==
  InitWith([a \in Accounts |-> IF a = "admin" THEN DirectBalance ELSE 0],
           [w \in RequestIds |-> NoRequest])

DirectStep(d) ==
  \/ \E amount \in DirectAmounts \cup {0} : DirectReceive(d, "admin", amount)
  \/ DirectGetUser(d)
  \/ \E gatewayUp \in BOOLEAN : DirectTransfer(d, gatewayUp)
  \/ DirectDebit(d)
  \/ DirectStoreThrows(d)

NextDirect ==
  \/ \E d \in DirectProcs : DirectStep(d)
  \/ \E amount \in DirectAmounts : CreateReceive("c1", "admin", amount)
  \/ CreateGetUser("c1")
  \/ CreateDebit("c1")
  \/ CreatePersist("c1")
  \/ CreateRefund("c1")
  \/ CreateStoreThrows("c1")
  \/ Tick

SpecDirect == InitDirect /\ [][NextDirect]_vars

\* ================================================================== claims
\* No webhook handler is at work on invoice i.
Quiet(i) == \A h \in WebhookProcs : ~(InFlight(wh[h]) /\ wh[h].inv = i)

\* A validly signed invoice_paid event of i was acknowledged with {ok: true}
\* by a handler that found no record of it, or a record FAILED by an error.
Acknowledged(i) == hist[i].ackedFresh \/ hist[i].ackedFailed

\* C1: idempotent webhook.  Whatever the deliveries and their interleaving,
\* no ledger effect of an invoice is applied twice, and once the deliveries
\* of a paid deposit have been acknowledged (no handler left at work, none
\* killed by a restart) its amount has been credited exactly once.
C1_IdempotentWebhook ==
  \A i \in InvoiceIds :
    /\ ledger[i].dep <= 1 /\ ledger[i].rec <= 1
    /\ ledger[i].author <= 1 /\ ledger[i].platform <= 1
    /\ (/\ gwInvoices[i].type = "deposit"
        /\ Quiet(i) /\ ~hist[i].aborted
        /\ Acknowledged(i)) => ledger[i].dep = 1

PermanentReasons == {"program_not_found", "unknown_type", "invalid_user_id"}

\* C6: a validly signed invoice_paid event for an invoice that has no Invoice
\* Record is applied from the store and the event alone: once it has been
\* acknowledged (no handler at work on it, none answered 500 or was killed),
\* the record is DONE, or FAILED for a permanent reason.
C6_PaidInvoiceApplied ==
  \A i \in InvoiceIds :
    (Quiet(i) /\ hist[i].ackedFresh /\ ~hist[i].errored /\ ~hist[i].aborted)
      => \/ invoices[i].status = "DONE"
         \/ invoices[i].status = "FAILED" /\ invoices[i].error \in PermanentReasons

\* C7: a redelivery that finds the record FAILED by a thrown error is not
\* acknowledged unless the record was reclaimed FAILED -> PROCESSING, by
\* this delivery or by the one that won the reclaim.
C7_FailedInvoiceReclaimed ==
  \A i \in InvoiceIds : hist[i].ackedFailed => hist[i].reclaimed

\* C2: approval race safety.  Two approve calls that arrived while the
\* request was PENDING never both answer with success.
C2_ApprovalRaceSafety ==
  \A a, b \in ApproveProcs :
    (/\ a # b /\ ap[a].id = ap[b].id
     /\ ap[a].pc = "done" /\ ap[b].pc = "done"
     /\ ap[a].onPending /\ ap[b].onPending)
      => ~(ap[a].resp = 200 /\ ap[b].resp = 200)

\* What has left escrow for request w: refunds to the requester, fee credits
\* to the platform account, payouts of the gateway.
Payouts(w) == {t \in transfers : t.w = w}
LeftEscrow(w) ==
  acct[w].refunds * wr[w].amount + acct[w].fees * feeAmount(wr[w].amount)
    + Cardinality(Payouts(w)) * netAmount(wr[w].amount)
Settled(w) ==
  /\ wr[w].status \in {"APPROVED", "REJECTED"}
  /\ \A a \in ApproveProcs : ~(InFlight(ap[a]) /\ ap[a].id = w)
  /\ \A r \in RejectProcs : ~(InFlight(rj[r]) /\ rj[r].id = w)

\* C3: withdrawal conservation.  As long as no store call has thrown and no
\* handler was killed, what has left escrow for a request never exceeds the
\* escrowed amount and equals it once the request is terminal; a request is
\* never both refunded and paid out, and never paid out twice.
C3_WithdrawalConservation ==
  \A w \in RequestIds : (faults = 0 /\ restarts = 0) =>
    /\ LeftEscrow(w) <= wr[w].amount
    /\ Settled(w) => LeftEscrow(w) = wr[w].amount
    /\ Cardinality(Payouts(w)) <= 1
    /\ ~(acct[w].refunds > 0 /\ Payouts(w) # {})

\* The step of approve handler a that calls the gateway's transfer.
TransferStep(a) == ap[a].pc = "transfer" /\ ap'[a].pc \in {"finalize", "revert"}

\* C5: stable transfer idempotency key.  Every transfer call for a request
\* carries the spend id persisted on that request.
C5_StableSpendId ==
  [][\A a \in ApproveProcs :
       TransferStep(a) =>
         withdrawToTrainer(wr[ap[a].id].telegram_id, ap[a].spendId) = wr[ap[a].id].spend_id]_vars

\* C9: the claim is the mutual-exclusion point.  Only an approve call that
\* itself moved the request PENDING -> PROCESSING gets as far as the
\* transfer and what follows it.
C9_ClaimIsMutex ==
  \A a \in ApproveProcs :
    ap[a].pc \in {"revert", "finalize", "recheck", "creditFee"} => ap[a].claimed

\* C10: the fee of a request is credited at most once, and only by the
\* approve call whose own PROCESSING -> APPROVED update landed.
C10_FeeCreditedOnce ==
  /\ \A w \in RequestIds : acct[w].fees <= 1
  /\ \A a \in ApproveProcs : ap[a].pc = "creditFee" => ap[a].landed
\* The step of create handler c that attempts the escrow debit.
DebitStep(c) == cr[c].pc = "debit" /\ cr'[c].pc # "debit"

\* C4: no negative balance.  Under deposits, purchases and withdrawal
\* creations, two of them racing included, every balance stays >= 0, and a
\* creation whose amount exceeds the balance debits nothing and persists
\* no request.
C4_NoNegativeBalance ==
  /\ [](\A u \in Accounts : balance[u] >= 0)
  /\ [][\A c \in CreateProcs :
          (DebitStep(c) /\ balance[cr[c].user] < cr[c].amount)
            => /\ balance' = balance
               /\ wr' = wr
               /\ ~cr'[c].debited
               /\ cr'[c].pc \in {"done", "refund"}]_vars

\* Two creations raced for a balance that covers one of them: one is in
\* escrow, the other was refused for lack of funds.
C4_Witness ==
  \E c, d \in CreateProcs :
    /\ c # d
    /\ cr[c].pc = "done" /\ cr[c].resp = 200
    /\ cr[d].pc = "done" /\ cr[d].resp = 400 /\ cr[d].amount > balance["trainer"]
    /\ cr[d].amount > 0 /\ cr[d].amount <= balance["trainer"] + cr[c].amount
    /\ \E w \in RequestIds : wr[w].status = "PENDING" /\ wr[w].amount = cr[c].amount
    /\ \E i \in InvoiceIds : ledger[i].author = 1
\* C8: sweep liveness.  A request left in PROCESSING past the timeout does
\* not stay there: unless an approval finishes it first, the sweep sets it
\* back to PENDING (with a fresh updated_at), and an approve call that then
\* reaches the claim on it wins the claim and goes on to the transfer.
C8_SweepLiveness ==
  /\ \A w \in RequestIds : Stale(w) ~> (wr[w].status # "PROCESSING")
  /\ [][\A w \in RequestIds :
          (Stale(w) /\ wr'[w] # wr[w] /\ ap' = ap)
            => wr'[w].status = "PENDING" /\ wr'[w].updated_at = now]_vars
  /\ [][\A a \in ApproveProcs :
          (/\ ap[a].pc = "claim" /\ ap'[a].pc # "claim"
           /\ acct[ap[a].id].swept /\ wr[ap[a].id].status = "PENDING"
           /\ faults' = faults /\ restarts' = restarts)
            => /\ wr'[ap[a].id].status = "PROCESSING"
               /\ ap'[a].pc = "transfer" /\ ap'[a].claimed]_vars

\* A request was swept back to PENDING and a later approve call claimed it,
\* paid it out and answered 200 with the request APPROVED.
C8_Witness ==
  \E a \in ApproveProcs :
    /\ ap[a].pc = "done" /\ ap[a].resp = 200 /\ ap[a].onPending
    /\ acct[ap[a].id].swept
    /\ wr[ap[a].id].status = "APPROVED"
    /\ Payouts(ap[a].id) # {}
\* The status changes a withdrawal request may make.
StatusMoves == {<<"PENDING", "PROCESSING">>, <<"PROCESSING", "APPROVED">>,
                <<"PROCESSING", "PENDING">>, <<"PENDING", "REJECTED">>}

\* C11: withdrawal status transitions.  Every step that changes the status
\* of a request moves it along PENDING -> PROCESSING, PROCESSING -> APPROVED,
\* PROCESSING -> PENDING or PENDING -> REJECTED; an APPROVED or REJECTED
\* request keeps its status under every approve, reject and sweep.
C11_StatusTransitions ==
  [][\A w \in RequestIds :
       /\ wr'[w].status # wr[w].status => <<wr[w].status, wr'[w].status>> \in StatusMoves
       /\ wr[w].status \in {"APPROVED", "REJECTED"} => wr'[w].status = wr[w].status]_vars

\* A request went PENDING -> PROCESSING -> PENDING (swept) -> REJECTED, and
\* an approve call that then found it REJECTED was refused.
C11_Witness ==
  \E w \in RequestIds, a \in ApproveProcs :
    /\ wr[w].status = "REJECTED" /\ acct[w].swept /\ acct[w].refunds = 1
    /\ ap[a].pc = "done" /\ ap[a].id = w /\ ap[a].resp = 400
\* The status changes an Invoice Record may make (NONE: no record yet).
RecordMoves == {<<"NONE", "PROCESSING">>, <<"PROCESSING", "DONE">>,
                <<"PROCESSING", "FAILED">>, <<"FAILED", "PROCESSING">>}

\* C12: Invoice Record lifecycle.  A record appears in PROCESSING and its
\* status moves only PROCESSING -> DONE, PROCESSING -> FAILED or
\* FAILED -> PROCESSING; a record that is DONE is never written again,
\* whatever deliveries and handlers follow.
C12_InvoiceLifecycle ==
  [][\A i \in InvoiceIds :
       /\ invoices'[i].status # invoices[i].status
            => <<invoices[i].status, invoices'[i].status>> \in RecordMoves
       /\ invoices[i].status = "DONE" => invoices'[i] = invoices[i]]_vars

\* One record is DONE with its deposit credited and two deliveries of that
\* invoice have been answered; another record is FAILED.
C12_Witness ==
  \E i, j \in InvoiceIds :
    /\ invoices[i].status = "DONE" /\ ledger[i].dep = 1
    /\ deliveries[i] >= 2 /\ Quiet(i)
    /\ invoices[j].status = "FAILED"
\* The step in which create handler c answers with code.
CreateAnswers(c, code) == cr[c].pc # "done" /\ cr'[c].pc = "done" /\ cr'[c].resp = code

\* C13: create withdrawal (escrow).  The debit of a successful create takes
\* the full requested amount off the requester's balance; the step that
\* answers success persists exactly one new request, PENDING, of that
\* requester and amount, and leaves the others alone; a create refused for
\* lack of funds persists nothing and leaves every balance unchanged.
C13_CreateEscrow ==
  [][\A c \in CreateProcs :
       /\ (DebitStep(c) /\ cr'[c].debited)
            => /\ balance[cr[c].user] >= cr[c].amount
               /\ balance' = [balance EXCEPT ![cr[c].user] = @ - cr[c].amount]
               /\ wr' = wr
       /\ CreateAnswers(c, 200)
            => /\ cr[c].debited /\ balance' = balance
               /\ \E w \in RequestIds :
                    /\ wr[w].status = "NONE"
                    /\ wr'[w] = [NoRequest EXCEPT !.status = "PENDING",
                                   !.telegram_id = cr[c].user, !.amount = cr[c].amount,
                                   !.updated_at = now]
                    /\ \A v \in RequestIds \ {w} : wr'[v] = wr[v]
       /\ CreateAnswers(c, 400)
            => ~cr[c].debited /\ wr' = wr /\ balance' = balance]_vars

\* The trainer, holding the author's share of one sale, put 10.00 in escrow:
\* the create answered success, the request is the only one and PENDING, and
\* the balance is the share less 10.00.
C13_Witness ==
  \E c \in CreateProcs :
    /\ cr[c].pc = "done" /\ cr[c].resp = 200 /\ cr[c].amount = 1000
    /\ wr[1] = [NoRequest EXCEPT !.status = "PENDING", !.telegram_id = "trainer",
                                 !.amount = 1000, !.updated_at = now]
    /\ wr[2].status = "NONE"
    /\ \A d \in CreateProcs : ~InFlight(cr[d])
    /\ balance["trainer"] = trainerShare(Program["p1"].price) - 1000
\* C14: create compensation.  A create whose debit went through and whose
\* persist then failed gives the full amount back before it answers 500 and
\* persists no request: the answer of a debited create that fails comes with
\* the refund, so that the balance is what it was before the call.
C14_CreateCompensation ==
  [][\A c \in CreateProcs :
       /\ (cr[c].pc = "persist" /\ cr'[c].pc \notin {"persist", "done"})
            => cr'[c].pc = "refund" /\ cr'[c].debited /\ wr' = wr /\ balance' = balance
       /\ (CreateAnswers(c, 500) /\ cr[c].debited)
            => /\ cr[c].pc = "refund"
               /\ wr' = wr
               /\ balance' = [balance EXCEPT ![cr[c].user] = @ + cr[c].amount]]_vars

\* The step in which a reject call arrives at handler r for request w.
RejectArrives(r, w) == ~InFlight(rj[r]) /\ rj'[r] # rj[r] /\ rj'[r].id = w

\* C15: reject.  A reject call takes effect only if the request is PENDING
\* at its conditional update: it then sets REJECTED and, with its next store
\* call, credits the full escrowed amount to the requester; a call on a
\* request in any other status answers without changing the request or a
\* balance.  No request is refunded twice, only a REJECTED request is
\* refunded, and a reject that answered success has refunded.
C15_Reject ==
  /\ [][\A r \in RejectProcs, w \in RequestIds :
          RejectArrives(r, w) =>
            /\ balance' = balance
            /\ IF wr[w].status = "PENDING"
                 THEN /\ wr' = [wr EXCEPT ![w].status = "REJECTED",
                                          ![w].reviewed_by = "admin", ![w].updated_at = now]
                      /\ rj'[r].pc = "refund"
                 ELSE wr' = wr /\ rj'[r].pc = "done" /\ rj'[r].resp = 404]_vars
  /\ [][\A r \in RejectProcs :
          (rj[r].pc = "refund" /\ rj'[r].pc = "done" /\ rj'[r].resp = 200)
            => /\ wr' = wr
               /\ balance' = [balance EXCEPT ![wr[rj[r].id].telegram_id] =
                                               @ + wr[rj[r].id].amount]]_vars
  /\ [](\A w \in RequestIds :
          /\ acct[w].refunds <= 1
          /\ acct[w].refunds = 1 => wr[w].status = "REJECTED")
  /\ [](\A r \in RejectProcs :
          (rj[r].pc = "done" /\ rj[r].resp = 200)
             => wr[rj[r].id].status = "REJECTED" /\ acct[rj[r].id].refunds = 1)

\* Two reject calls raced for the request: one refunded the trainer in full
\* and answered success, the other was refused.
C15_Witness ==
  \E r, q \in RejectProcs :
    /\ rj[r] = [pc |-> "done", id |-> 1, resp |-> 200]
    /\ rj[q] = [pc |-> "done", id |-> 1, resp |-> 404]
    /\ wr[1].status = "REJECTED" /\ acct[1].refunds = 1
    /\ balance["trainer"] = EarnedBalance
    /\ transfers = {}
\* The step in which approve handler a runs the catch of a failed transfer.
RevertStep(a) == ap[a].pc = "revert" /\ ap'[a].pc = "done" /\ faults' = faults

\* C16: transfer failure reverts the claim.  An approve call whose transfer
\* failed with an error other than the duplicate signal sets the request it
\* finds in PROCESSING back to PENDING, touches no request that is not
\* PROCESSING, answers 500, pays nothing out, credits no fee and gives
\* nothing back to the requester: the amount stays in escrow.
C16_TransferFailureReverts ==
  /\ [][\A a \in ApproveProcs :
          (ap[a].pc = "transfer" /\ ap'[a].pc = "revert")
             => wr' = wr /\ balance' = balance /\ transfers' = transfers /\ acct' = acct]_vars
  /\ [][\A a \in ApproveProcs :
          RevertStep(a) =>
            /\ ap'[a].resp = 500
            /\ balance' = balance /\ transfers' = transfers /\ acct' = acct
            /\ wr' = IF wr[ap[a].id].status = "PROCESSING"
                       THEN [wr EXCEPT ![ap[a].id].status = "PENDING",
                                       ![ap[a].id].updated_at = now]
                       ELSE wr]_vars
  /\ [](\A a \in ApproveProcs :
          ap[a].pc = "revert" => wr[ap[a].id].status # "NONE")

\* The only approve call on the request failed at the gateway: it answered
\* 500, the request is PENDING again with its spend id kept, nothing was paid
\* out, no fee was credited, and the trainer's balance is still short of the
\* escrowed amount.
C16_Witness ==
  /\ ap["a1"].pc = "done" /\ ap["a1"].resp = 500 /\ ap["a1"].id = 1
  /\ ap["a2"].pc = "idle"
  /\ faults = 0 /\ restarts = 0 /\ ~acct[1].swept
  /\ wr[1].status = "PENDING" /\ wr[1].spend_id # NoSpend
  /\ transfers = {} /\ acct[1].fees = 0 /\ acct[1].refunds = 0
  /\ balance["trainer"] = EarnedBalance - wr[1].amount
  /\ balance["admin"] = 0
\* C17: duplicate-key transfer error is success.  An approve call whose
\* transfer is answered with the gateway's duplicate signal does not revert:
\* it pays nothing out again, leaves the request alone and stands where a
\* call whose transfer succeeded stands; from there the request it finds in
\* PROCESSING becomes APPROVED with reviewer, fee and net recorded, and the
\* fee goes to the platform account.
C17_DuplicateIsSuccess ==
  /\ [][\A a \in ApproveProcs :
          (ap[a].pc = "transfer" /\ ap'[a].gateway = "duplicate")
            => /\ ap'[a] = [ap[a] EXCEPT !.pc = "finalize", !.gateway = "duplicate"]
               /\ transfers' = transfers /\ wr' = wr /\ balance' = balance]_vars
  /\ [][\A a \in ApproveProcs :
          (ap[a].pc = "finalize" /\ ap'[a].pc = "recheck" /\ wr[ap[a].id].status = "PROCESSING")
            => LET w == ap[a].id
                   fee == feeAmount(wr[w].amount) IN
               wr' = [wr EXCEPT ![w].status = "APPROVED", ![w].reviewed_by = "admin",
                                ![w].fee_amount = fee, ![w].net_amount = wr[w].amount - fee,
                                ![w].spend_id = ap[a].spendId, ![w].updated_at = now]]_vars
  /\ [][\A a \in ApproveProcs :
          (ap[a].pc = "creditFee" /\ ap'[a].pc = "done" /\ ap'[a].resp = 200)
            => balance' = [balance EXCEPT ![adminTelegramId] =
                             @ + feeAmount(wr[ap[a].id].amount)]]_vars
  /\ [](\A a \in ApproveProcs :
          /\ ap[a].pc = "revert" => ap[a].gateway = "error"
          /\ ap[a].pc = "finalize" => ap[a].gateway \in {"ok", "duplicate"})

\* An approve call paid the request out and was killed before it finalized;
\* the retry in the same clock reading got the duplicate signal and went on:
\* still one payout, the request APPROVED with fee and net, and the call
\* about to credit the fee.
C17_Witness ==
  /\ restarts = 1 /\ faults = 0
  /\ ap["a1"].pc = "creditFee" /\ ap["a1"].gateway = "duplicate" /\ ap["a1"].landed
  /\ ap["a2"].pc = "idle"
  /\ wr[1].status = "APPROVED"
  /\ wr[1].fee_amount = feeAmount(wr[1].amount)
  /\ wr[1].net_amount + wr[1].fee_amount = wr[1].amount
  /\ Cardinality(Payouts(1)) = 1
  /\ acct[1].fees = 0

\* The step in which approve handler a reads the request it was called for.
LoadStep(a) == ap[a].pc = "load" /\ ap'[a].pc # "load" /\ faults' = faults /\ restarts' = restarts

\* C18: no double approval.  An approve call that finds the request APPROVED
\* or REJECTED answers 400 at once: it invokes no transfer, credits no fee
\* and leaves the request, with its status, fee, net and reviewer, and every
\* balance as they were.
C18_NoDoubleApproval ==
  [][\A a \in ApproveProcs :
       (LoadStep(a) /\ wr[ap[a].id].status \in {"APPROVED", "REJECTED"})
         => /\ ap'[a].pc = "done" /\ ap'[a].resp = 400
            /\ wr' = wr /\ balance' = balance
            /\ transfers' = transfers /\ acct' = acct]_vars

\* The request was approved, paid out once and its fee credited once; a
\* second approve call on it was answered 400 and nothing moved.
C18_Witness ==
  \E a \in ApproveProcs :
    /\ ap[a].pc = "done" /\ ap[a].resp = 400 /\ ap[a].id = 1 /\ ~ap[a].onPending
    /\ wr[1].status = "APPROVED" /\ wr[1].reviewed_by = "admin"
    /\ wr[1].fee_amount = feeAmount(wr[1].amount)
    /\ Cardinality(Payouts(1)) = 1 /\ acct[1].fees = 1 /\ acct[1].refunds = 0
    /\ balance["admin"] = wr[1].fee_amount
    /\ \A b \in ApproveProcs : ~InFlight(ap[b])
\* C19: dispatch exception handling.  A webhook handler in whose dispatch a
\* step threw never answers with the acknowledgement: it answers 500, and
\* when it does the Invoice Record is FAILED with the exception's message.
C19_DispatchException ==
  [][\A h \in WebhookProcs :
       (wh[h].pc = "catch" /\ wh'[h].pc = "done")
         => /\ wh'[h].resp = 500
            /\ invoices'[wh[h].inv] = [status |-> "FAILED", error |-> ThrownError]]_vars
\* The step in which webhook handler h runs markInvoiceFailed.
MarkFailedStep(h) == wh[h].pc = "markFailed" /\ wh'[h].pc = "done" /\ faults' = faults

Refused(h) == ~InFlight(wh[h]) /\ wh'[h] # wh[h] /\ wh'[h].pc = "done" /\ wh'[h].resp = 401

\* C21: signature failure changes nothing.  A webhook request answered 401
\* creates and modifies no Invoice Record, changes no balance, account,
\* purchase, counter or ledger effect, and leaves the invoice as known to
\* the process as it was, so that a correctly signed delivery can still be
\* processed; and an invoice whose deliveries were all refused has no record.
C21_SignatureFailure ==
  /\ [][\A h \in WebhookProcs :
          Refused(h) => UNCHANGED <<balance, users, gwInvoices, pendingInvoices, invoices,
                                    purchases, purchaseCount, programs, ledger, hist>>]_vars
  /\ [](\A i \in InvoiceIds :
          (pendingInvoices[i] # NoInvoice) => invoices[i] = NoRecord /\ ledger[i] = NoEffect)

\* The first delivery of a paid deposit was refused for its signature; the
\* second, correctly signed, found the invoice still pending and has credited
\* the deposit.
C21_Witness ==
  \E i \in InvoiceIds :
    /\ deliveries[i] = 2 /\ faults = 0 /\ restarts = 0
    /\ wh["w1"].pc = "markDone" /\ wh["w1"].inv = i /\ wh["w1"].fresh
    /\ wh["w2"].pc = "idle"
    /\ gwInvoices[i].type = "deposit"
    /\ invoices[i].status = "PROCESSING"
    /\ ledger[i].dep = 1
    /\ balance[gwInvoices[i].userId] = gwInvoices[i].amount
\* Paid amounts, in cents, over which the split's arithmetic is examined.
MaxPrice == 30
SplitAmounts == (1..MaxPrice) \cup {Program[p].price : p \in ProgramIds}

\* 0.9 * P rounded to cents, half a cent upwards.
NineTenths(P) == (9 * P + 5) \div 10

\* A step of handler h that completes one of its awaits on a purchase.
PurchaseStep(h) ==
  /\ wh[h].pc \in DispatchPcs /\ wh'[h] # wh[h] /\ wh'[h].pc # "catch"
  /\ gwInvoices[wh[h].inv].type = "purchase"

RecordsOf(p) == {k \in purchases : k[2] = p}
RECURSIVE CreatedBy(_, _)
CreatedBy(p, I) ==
  IF I = {} THEN 0
  ELSE LET i == CHOOSE j \in I : TRUE IN
       (IF gwInvoices[i].type = "purchase" /\ gwInvoices[i].programId = p
          THEN ledger[i].rec ELSE 0) + CreatedBy(p, I \ {i})

\* C23: purchase uniqueness.  No (account, program) pair has more than one
\* Purchase Record, and whenever no handler stands between the creation of a
\* record and the increment, the purchase counter of an existing program
\* equals the number of Purchase Records created for it.
C23_PurchaseUniqueness ==
  \A p \in ProgramIds :
    /\ CreatedBy(p, InvoiceIds) = Cardinality(RecordsOf(p))
    /\ purchaseCount[p] <= Cardinality(RecordsOf(p))
    /\ (/\ p \in programs
        /\ \A h \in WebhookProcs : wh[h].pc # "purchaseInc")
         => purchaseCount[p] = Cardinality(RecordsOf(p))
\* Handler h is at work on a purchase whose pair has a Purchase Record.
AlreadyPurchased(h) ==
  /\ InFlight(wh[h])
  /\ gwInvoices[wh[h].inv].type = "purchase"
  /\ <<gwInvoices[wh[h].inv].userId, gwInvoices[wh[h].inv].programId>> \in purchases

\* C24: already purchased is a no-op success.  A purchase handler whose
\* hasPurchased finds the pair's Purchase Record goes straight to the DONE
\* update; that update marks the invoice DONE and acknowledges; neither step
\* changes a balance, the Purchase Records, the counter or a ledger effect;
\* and an invoice so finished has no ledger effect at all.
C24_AlreadyPurchased ==
  /\ [][\A h \in WebhookProcs :
          /\ (AlreadyPurchased(h) /\ wh[h].pc = "hasPurchased"
                /\ wh'[h] # wh[h] /\ faults' = faults)
               => /\ wh'[h].pc = "markDone"
                  /\ UNCHANGED <<balance, purchases, purchaseCount, ledger, invoices>>
          /\ (AlreadyPurchased(h) /\ wh[h].pc = "markDone"
                /\ wh'[h] # wh[h] /\ faults' = faults)
               => /\ invoices'[wh[h].inv].status = "DONE"
                  /\ wh'[h].pc = "done" /\ wh'[h].resp = 200
                  /\ UNCHANGED <<balance, purchases, purchaseCount, ledger>>]_vars
  /\ [](\A i \in InvoiceIds :
          gwInvoices[i].type = "purchase" /\ ledger[i].rec = 0 => ledger[i] = NoEffect)

\* Two invoices for the same pair were paid and delivered one after the
\* other: both are DONE, the first made the record and the split, the second
\* changed nothing.
C24_Witness ==
  /\ invoices[1].status = "DONE" /\ invoices[2].status = "DONE"
  /\ gwInvoices[1].type = "purchase" /\ gwInvoices[2].type = "purchase"
  /\ ledger[1].rec + ledger[2].rec = 1
  /\ ledger[1].author + ledger[2].author = 1
  /\ purchases = {<<"buyer", "p1">>} /\ purchaseCount["p1"] = 1
  /\ balance["trainer"] = 1800 /\ balance["admin"] = 200
\* Requested amounts, in cents, over which the fee's arithmetic is examined.
MaxFeeBase == 100
FeeBases == (1..MaxFeeBase) \cup WithdrawAmounts \cup {10000}

\* 3 % of an amount rounded to cents, half a cent upwards.
ThreePercent(amount) == (3 * amount + 50) \div 100

SweptAt(requests, t) ==
  [w \in RequestIds |->
     IF requests[w].status = "PROCESSING"
        /\ requests[w].updated_at < t - WITHDRAWAL_PROCESSING_TIMEOUT
       THEN [requests[w] EXCEPT !.status = "PENDING", !.updated_at = t]
       ELSE requests[w]]

\* A step that changes a request while every handler stands still.
SweepStep == wr' # wr /\ ap' = ap /\ rj' = rj /\ cr' = cr

\* C26: sweep frame and idempotence.  The sweep sets exactly the PROCESSING
\* requests older than the timeout to PENDING with a fresh updated_at and
\* leaves every other request, and of the swept ones everything but status
\* and updated_at, as it was; it changes no balance and no transfer; and a
\* second sweep right after the first changes nothing.
C26_SweepFrame ==
  [][SweepStep =>
       /\ wr' = SweptAt(wr, now)
       /\ \A w \in RequestIds :
            /\ wr'[w].amount = wr[w].amount /\ wr'[w].spend_id = wr[w].spend_id
            /\ wr'[w].telegram_id = wr[w].telegram_id
            /\ wr'[w] # wr[w] => wr[w].status = "PROCESSING" /\ wr'[w].status = "PENDING"
       /\ UNCHANGED <<balance, transfers, now, whVars, dw>>
       /\ SweptAt(wr', now') = wr']_vars

\* Request 1 was claimed at time 0 and left PROCESSING by a process that
\* stopped; request 2 was claimed at time 1; the sweep at time 2 has put
\* request 1 back to PENDING with its spend id and left request 2 alone.
C26_Witness ==
  /\ now = 2
  /\ acct[1].swept /\ wr[1].status = "PENDING" /\ wr[1].updated_at = 2
  /\ wr[1].spend_id # NoSpend /\ wr[1].amount = 1000
  /\ ~acct[2].swept /\ wr[2].status = "PROCESSING" /\ wr[2].updated_at = 1
\* What the gateway has paid out on direct withdrawals, and what sits in the
\* escrow of created requests.
DirectPaid == Cardinality({t \in transfers : t.w = 0}) * 1000
Escrowed == Cardinality({w \in RequestIds : wr[w].status = "PENDING"}) * 1000

\* C27: the direct withdraw path is race-free.  Under direct withdrawals and
\* request creations of one account, in any interleaving, the balance never
\* becomes negative and what was paid out and put in escrow never exceeds
\* what the account held.
C27_DirectWithdrawAtomic ==
  /\ \A u \in Accounts : balance[u] >= 0
  /\ DirectPaid + Escrowed <= DirectBalance
\* C28: a FAILED invoice has no applied effect.  Whenever an Invoice Record
\* is FAILED, neither the deposit credit nor the purchase record, the
\* author's share or the platform's share of that invoice is in place.
C28_FailedHasNoEffect ==
  \A i \in InvoiceIds : invoices[i].status = "FAILED" => ledger[i] = NoEffect
\* No approve or reject handler is at work.
NoReviewRunning ==
  /\ \A a \in ApproveProcs : ~InFlight(ap[a])
  /\ \A r \in RejectProcs : ~InFlight(rj[r])

\* C29: a terminal status implies its ledger effect.  Whenever no handler
\* is running, every REJECTED request has had its amount credited back to
\* the requester and every APPROVED request with a positive fee has had the
\* fee credited to the platform account.
C29_TerminalImpliesEffect ==
  NoReviewRunning =>
    \A w \in RequestIds :
      /\ wr[w].status = "REJECTED" => acct[w].refunds >= 1
      /\ (wr[w].status = "APPROVED" /\ wr[w].fee_amount > 0) => acct[w].fees >= 1
\* C30: the revenue split follows the purchase record.  However the paid
\* invoices of one (buyer, program) pair are processed, an invoice whose
\* handler did not insert the Purchase Record credits no share, so that the
\* author and the platform are credited once per record.
C30_SplitFollowsRecord ==
  \A i \in InvoiceIds :
    ledger[i].author <= ledger[i].rec /\ ledger[i].platform <= ledger[i].rec
====
